---- MODULE Spec2Model ----
(***************************************************************************)
(* A model of trilium-md2org.py: the front-matter extractor, the metadata  *)
(* normalizer, the image-link rewriter, the per-file pipeline              *)
(* (convert_file), the driver (main) and two runs sharing one destination  *)
(* image directory.                                                        *)
(*                                                                         *)
(* The except clause at line 231 is read as the handler of the try at line *)
(* 201 (its indentation in the file is off by one level).                  *)
(***************************************************************************)
EXTENDS Integers, Sequences, FiniteSets, TLC

VARIABLES
    \* extract_metadata
    em_text,        \* the text argument, a sequence of tokens
    em_yaml,        \* what yaml.safe_load does with a non-blank block
    em_result,      \* what the call produced
    \* ensure_metadata
    en_in,          \* the metadata argument
    en_out,         \* the returned mapping, or NotCalled
    \* main and convert_file: the run
    pc,             \* where the run is
    src_is_dir,     \* src.is_dir()
    n_src,          \* how many .md files src.rglob finds
    imgs,           \* per file, how many image matches its body has
    total_files,    \* len(md_files), -1 before the enumeration
    idx,            \* the position of the for loop in md_files
    m_idx,          \* the position of re.sub in the matches of the file
    success_count,
    assembled,      \* final_content of the current file exists
    exit_code,      \* -1 while running
    summary,        \* the "Conversion complete" line, or NotLogged
    warning,        \* the "Failed to convert" line, or NotLogged
    interrupted,    \* "Conversion interrupted by user" was logged
    \* main and convert_file: the file system
    dst_exists,     \* the destination root is a directory
    backup,         \* the files that have a .bak beside them
    org,            \* per file, its destination document
    org_parent,     \* the files whose destination directory exists
    img_dir,        \* the files whose images directory exists
    img_copies,     \* per file, how many image files its matches wrote
    \* main and convert_file: the history of the run
    attempts,       \* the files convert_file was called on, in order
    outcome,        \* per file, what convert_file returned
    done,           \* per file, the steps that completed
    failed_at,      \* per file, the step that raised
    fs0,            \* the destination tree before the run
    \* process_image_links
    il_content,     \* new_content, a sequence of pieces of text
    il_content0,    \* the content argument
    il_pass,        \* the pattern re.sub is applying: 1, 2, 3; 4 once returned
    il_pos,         \* the piece of the last match of this pass
    il_src,         \* the source paths that are files
    il_dir,         \* image_dir exists
    il_files,       \* per name in image_dir: absent, partial or complete
    il_log,         \* the calls of process_image so far
    \* two runs that share an image directory
    cc_jobs,        \* the image files a run copies, in order
    cc_at,          \* per run, the copy it is at
    cc_off,         \* per run, -1 before copy2 opened the copy, then the chunks written
    cc_files        \* per name in the image directory, whether it is there and its data

pureVars == <<em_text, em_yaml, em_result, en_in, en_out>>
runVars == <<pc, src_is_dir, n_src, imgs, total_files, idx, m_idx, success_count,
             assembled, exit_code, summary, warning, interrupted>>
fsVars == <<dst_exists, backup, org, org_parent, img_dir, img_copies>>
histVars == <<attempts, outcome, done, failed_at, fs0>>
mainVars == <<runVars, fsVars, histVars>>
linkVars == <<il_content, il_content0, il_pass, il_pos, il_src, il_dir, il_files, il_log>>
copyVars == <<cc_jobs, cc_at, cc_off, cc_files>>
vars == <<pureVars, mainVars, linkVars, copyVars>>

NotCalled == [t |-> "notcalled"]
NotLogged == [t |-> "notlogged"]

(***************************************************************************)
(* Python values.                                                          *)
(***************************************************************************)
PyNone == [t |-> "none"]
PyStr(s) == [t |-> "str", s |-> s]
PyInt(n) == [t |-> "int", n |-> n]
PyList(items) == [t |-> "list", items |-> items]
PyDict(d) == [t |-> "dict", d |-> d]
EmptyDict == PyDict([k \in {} |-> PyNone])

\* the pure functions when a specification does not call them
ExtractIdle == em_text = <<>> /\ em_yaml = [kind |-> "YAMLError"] /\ em_result = NotCalled
EnsureIdle == en_in = PyNone /\ en_out = NotCalled

\* Python truthiness, as used by `x or {}` and `[value] if value else []`
Truthy(v) ==
    CASE v.t = "none" -> FALSE
      [] v.t = "str"  -> v.s # ""
      [] v.t = "int"  -> v.n # 0
      [] v.t = "list" -> Len(v.items) > 0
      [] v.t = "dict" -> DOMAIN v.d # {}

IsDict(v) == v.t = "dict"
IsList(v) == v.t = "list"

\* str(v) for the values the model draws
StrOf(v) ==
    CASE v.t = "none" -> "None"
      [] v.t = "str"  -> v.s
      [] v.t = "int"  -> IF v.n = 0 THEN "0" ELSE "1"
      [] v.t = "list" -> IF Len(v.items) = 0 THEN "[]" ELSE "['a']"
      [] v.t = "dict" -> "{..}"

(***************************************************************************)
(* DEFAULT_METADATA and ensure_metadata.                                   *)
(***************************************************************************)
DefaultKeys == {"title", "created", "modified", "type", "tags"}

DEFAULT_METADATA ==
    [k \in DefaultKeys |->
        CASE k = "type" -> PyStr("note")
          [] k = "tags" -> PyList(<<>>)
          [] OTHER      -> PyStr("")]

\* the value stored for a key found in the input, without lines 64-65
CoerceNoWrap(default, value) == value

\* lines 64-66: the value stored for a key found in the input
Coerce(default, value) ==
    IF IsList(default) /\ ~IsList(value)
    THEN (IF Truthy(value) THEN PyList(<<value>>) ELSE PyList(<<>>))
    ELSE value

ensure_metadata(metadata) ==
    IF IsDict(metadata)
    THEN [k \in DefaultKeys |->
            IF k \in DOMAIN metadata.d
            THEN Coerce(DEFAULT_METADATA[k], metadata.d[k])
            ELSE DEFAULT_METADATA[k]]
    ELSE DEFAULT_METADATA

(***************************************************************************)
(* extract_metadata.  A text is a sequence of tokens: "D" is the three     *)
(* dashes, "N" a newline, "S" a blank other than a newline, "T" any other  *)
(* run of characters.                                                      *)
(***************************************************************************)
Tokens == {"D", "N", "S", "T"}
IsWs(c) == c \in {"N", "S"}

\* the last index of the run of \s characters that starts at p (p-1 if none)
WsRunEnd(t, p) ==
    LET ends == {q \in (p-1)..Len(t) : \A r \in p..q : IsWs(t[r])}
    IN  CHOOSE q \in ends : \A r \in ends : r <= q

\* the newlines that `\s*\n` at position p can end on
NlIn(t, p) == {i \in p..WsRunEnd(t, p) : t[i] = "N"}

SetMax(S) == CHOOSE x \in S : \A y \in S : y <= x
SetMin(S) == CHOOSE x \in S : \A y \in S : x <= y

\* `\n---\s*\n` matches at j (the index of its first newline)
CloserAt(t, j) ==
    /\ j + 1 <= Len(t)
    /\ t[j] = "N"
    /\ t[j+1] = "D"
    /\ NlIn(t, j + 2) # {}

\* the closers the lazy group can stop at when the opener ends at newline i
Closers(t, i) == {j \in (i+1)..Len(t) : CloserAt(t, j)}

\* the opener newlines from which the whole pattern matches
Openers(t) ==
    IF Len(t) >= 1 /\ t[1] = "D"
    THEN {i \in NlIn(t, 2) : Closers(t, i) # {}}
    ELSE {}

\* yaml_pattern.match(text): greedy opener `\s*`, lazy group, greedy closer `\s*`
YamlMatch(t) ==
    IF Openers(t) = {}
    THEN [matched |-> FALSE]
    ELSE LET i == SetMax(Openers(t))
             j == SetMin(Closers(t, i))
         IN  [matched |-> TRUE,
              group   |-> SubSeq(t, i + 1, j - 1),
              end     |-> SetMax(NlIn(t, j + 2))]

\* yaml.safe_load: a blank document loads as None; anything else is the
\* library's business, drawn by Init
BlankBlock(g) == \A r \in 1..Len(g) : IsWs(g[r])

safe_load(g, oracle) ==
    IF BlankBlock(g) THEN [kind |-> "value", value |-> PyNone] ELSE oracle

Returned(metadata, content) ==
    [t |-> "returned", metadata |-> metadata, content |-> content]
Raised == [t |-> "raised"]

\* extract_metadata with `content = text[match.end():]` left out
extract_metadataKeepText(text, oracle) ==
    LET m == YamlMatch(text) IN
    IF ~m.matched THEN Returned(EmptyDict, text)
    ELSE LET r == safe_load(m.group, oracle) IN
         CASE r.kind = "YAMLError" -> Returned(EmptyDict, text)
           [] r.kind = "Exception" -> Raised
           [] r.kind = "value" ->
                LET loaded   == IF Truthy(r.value) THEN r.value ELSE EmptyDict
                    metadata == IF IsDict(loaded)
                                THEN loaded
                                ELSE PyDict([k \in {"content"} |-> PyStr(StrOf(loaded))])
                IN  Returned(metadata, text)

extract_metadata(text, oracle) ==
    LET m == YamlMatch(text) IN
    IF ~m.matched THEN Returned(EmptyDict, text)
    ELSE LET r == safe_load(m.group, oracle) IN
         CASE r.kind = "YAMLError" -> Returned(EmptyDict, text)
           [] r.kind = "Exception" -> Raised
           [] r.kind = "value" ->
                LET loaded   == IF Truthy(r.value) THEN r.value ELSE EmptyDict
                    metadata == IF IsDict(loaded)
                                THEN loaded
                                ELSE PyDict([k \in {"content"} |-> PyStr(StrOf(loaded))])
                IN  Returned(metadata, SubSeq(text, m.end + 1, Len(text)))

(***************************************************************************)
(* process_image_links.  The content is a sequence of pieces: plain text,  *)
(* an inline image ![alt](path), an img tag, a wiki link [[file:path]] or  *)
(* [[path]], or a link this function wrote.  The alt text of an inline     *)
(* image is plain text or an img tag.                                      *)
(***************************************************************************)
MdParent == "/notes"

WrittenPaths == {"my%20pic.png", "/abs/pic.png"}

\* urllib.parse.unquote on the strings of the model
unquote(p) == IF p = "my%20pic.png" THEN "my pic.png" ELSE p

\* Path.is_absolute and Path.name on the strings of the model
is_absolute(p) == p = "/abs/pic.png"
NameOf(p) ==
    CASE p = "/abs/pic.png" -> "pic.png"
      [] p = "/notes/my pic.png" -> "my pic.png"
      [] p = "/notes/my%20pic.png" -> "my%20pic.png"
      [] p = "/notes/file:" -> "file:"
      [] p = "/notes/pic.png" -> "pic.png"

\* lines 158-160
Resolve(p) == IF is_absolute(p) THEN p ELSE MdParent \o "/" \o p

\* the source paths a match of the model can resolve to
Sources == {"/notes/my pic.png", "/abs/pic.png", "/notes/file:"}

\* hashlib.md5(str(img_source).encode()).hexdigest()
Md5Hex(p) ==
    CASE p = "/notes/my pic.png" ->
           <<"4", "b", "0", "9", "d", "6", "3", "8", "5", "6", "a", "1", "1", "f", "a", "1",
             "2", "4", "d", "2", "8", "1", "0", "b", "b", "3", "3", "5", "7", "c", "3", "6">>
      [] p = "/abs/pic.png" ->
           <<"7", "c", "7", "3", "7", "1", "3", "6", "3", "d", "7", "a", "8", "e", "4", "3",
             "1", "d", "c", "0", "3", "8", "6", "d", "b", "4", "3", "2", "e", "1", "4", "7">>
      [] p = "/notes/file:" ->
           <<"3", "1", "a", "6", "b", "3", "c", "b", "4", "4", "3", "d", "2", "a", "2", "4",
             "c", "9", "d", "f", "7", "4", "1", "4", "7", "f", "9", "8", "3", "2", "7", "2">>
      [] p = "/notes/pic.png" ->
           <<"1", "5", "9", "4", "5", "e", "f", "b", "0", "9", "1", "6", "7", "c", "3", "3",
             "0", "c", "8", "b", "c", "2", "6", "4", "6", "6", "3", "3", "0", "0", "6", "c">>

RECURSIVE Join(_)
Join(chars) == IF chars = <<>> THEN "" ELSE Head(chars) \o Join(Tail(chars))

HashLen == 8

\* lines 163-164 without the hash: the name of the source file
NewFilenameNoHash(img_source) == NameOf(img_source)

\* lines 163-164
NewFilename(img_source) ==
    Join(SubSeq(Md5Hex(img_source), 1, HashLen)) \o "_" \o NameOf(img_source)

ImageNames == {NewFilename(p) : p \in Sources}

\* the pieces
Plain(text) == [k |-> "txt", s |-> text]
Inline(alt, path) == [k |-> "a", alt |-> alt, path |-> path]
Tag(path) == [k |-> "b", path |-> path]
Wiki(prefix, path) == [k |-> "c", prefix |-> prefix, path |-> path]
\* line 172: [[file:{rel_path}][{alt_text}]]
OrgLink(rel_path, alt) == [k |-> "org", target |-> rel_path, alt |-> alt]

\* the pieces a content of the model is made of
Pieces ==
    { Plain("t"),
      Inline(Plain("x"), "my%20pic.png"), Inline(Plain("x"), "/abs/pic.png"),
      Inline(Tag("/abs/pic.png"), "my%20pic.png"),
      Tag("my%20pic.png"), Tag("/abs/pic.png"),
      Wiki(TRUE, "/abs/pic.png"), Wiki(FALSE, "/abs/pic.png") }

HasAlt(piece) == piece.k \in {"a", "org"}

\* lines 144-146: whether pattern `pass` matches in a piece
MatchIn(pass, piece) ==
    CASE pass = 1 -> piece.k = "a"
      [] pass = 2 -> piece.k = "b" \/ (HasAlt(piece) /\ piece.alt.k = "b")
      [] pass = 3 -> piece.k = "c"
      [] OTHER    -> FALSE

\* match.group(0) of the match of pattern `pass` in a piece
Matched(pass, piece) ==
    IF pass = 2 /\ piece.k # "b" THEN piece.alt ELSE piece

\* match.groups()
Groups(m) ==
    CASE m.k = "a" -> <<m.alt, PyStr(m.path)>>
      [] m.k = "b" -> <<PyStr(m.path)>>
      [] m.k = "c" -> <<IF m.prefix THEN PyStr("file:") ELSE PyNone, PyStr(m.path), PyStr("png")>>

\* what the file system does to lines 167-168 when the source is a file
CopyOutcomes == {"mkdir_raises", "copy_raises_partial", "copy_raises_copied", "copied"}

Call(ret, result, mkdir, wrote, name) ==
    [ret |-> ret, result |-> result, mkdir |-> mkdir, wrote |-> wrote, name |-> name]

\* lines 149-178 without the test of line 162
process_imageNoTest(m, src, o) ==
    LET groups   == Groups(m)
        img_path == IF Len(groups) = 2 THEN groups[2] ELSE groups[1]
        alt_text == IF Len(groups) = 2 THEN groups[1] ELSE Plain("")
    IN  IF img_path = PyNone
        THEN Call(m, "type_error", FALSE, "no", "")
        ELSE LET img_source   == Resolve(unquote(img_path.s))
                 new_filename == NewFilename(img_source)
                 link         == OrgLink(<<"images", new_filename>>, alt_text)
             IN  IF img_source \notin src
                 THEN Call(link, "missing", FALSE, "no", new_filename)
                 ELSE CASE o = "mkdir_raises" -> Call(m, o, FALSE, "no", new_filename)
                        [] o = "copy_raises_partial" -> Call(m, o, TRUE, "partial", new_filename)
                        [] o = "copy_raises_copied" -> Call(m, o, TRUE, "complete", new_filename)
                        [] o = "copied" -> Call(link, o, TRUE, "complete", new_filename)

\* lines 149-178: the replacement of a match, and what the call did to the
\* image directory
process_image(m, src, o) ==
    LET groups   == Groups(m)
        img_path == IF Len(groups) = 2 THEN groups[2] ELSE groups[1]
        alt_text == IF Len(groups) = 2 THEN groups[1] ELSE Plain("")
    IN  IF img_path = PyNone
        THEN \* unquote(None) raises TypeError, caught at line 176
             Call(m, "type_error", FALSE, "no", "")
        ELSE LET img_source   == Resolve(unquote(img_path.s))
                 new_filename == NewFilename(img_source)
                 link         == OrgLink(<<"images", new_filename>>, alt_text)
             IN  IF img_source \notin src
                 THEN Call(m, "missing", FALSE, "no", new_filename)
                 ELSE CASE o = "mkdir_raises" -> Call(m, o, FALSE, "no", new_filename)
                        [] o = "copy_raises_partial" -> Call(m, o, TRUE, "partial", new_filename)
                        [] o = "copy_raises_copied" -> Call(m, o, TRUE, "complete", new_filename)
                        [] o = "copied" -> Call(link, o, TRUE, "complete", new_filename)

MaxPieces == 2

Contents == UNION {[1..n -> Pieces] : n \in 0..MaxPieces}

LinksIdle ==
    /\ il_content = <<>> /\ il_content0 = <<>> /\ il_pass = 0 /\ il_pos = 0
    /\ il_src = {} /\ il_dir = FALSE
    /\ il_files = [n \in ImageNames |-> "absent"]
    /\ il_log = <<>>


(***************************************************************************)
(* Two runs over the same source and destination trees.  shutil.copy2      *)
(* opens the copy for writing, which creates or truncates it, and writes   *)
(* the source into it chunk by chunk.                                      *)
(***************************************************************************)
Runs == {1, 2}

\* two image files of the same name in different directories
CopySources == {"/abs/pic.png", "/notes/pic.png"}
CopyNames == {NewFilename(p) : p \in CopySources}

MaxChunks == 2
MaxJobs == 2

Hole == <<"", 0>>
SourceData(p) == [k \in 1..MaxChunks |-> <<p, k>>]
NoFile == [present |-> FALSE, data |-> <<>>]

CopyIdle ==
    /\ cc_jobs = <<>>
    /\ cc_at = [r \in Runs |-> 1]
    /\ cc_off = [r \in Runs |-> -1]
    /\ cc_files = [n \in CopyNames |-> NoFile]

(***************************************************************************)
(* main and convert_file.  A run is a sequence of steps, one per statement *)
(* that touches the file system or can raise; a KeyboardInterrupt can      *)
(* arrive between any two of them.                                         *)
(***************************************************************************)
MaxFiles == 2
MaxImgs == 1

Files == 1..MaxFiles
Enumerated == 1..total_files

\* The destination document of a file (org) is "absent", "old" (left by an
\* earlier run), "partial" (opened and not completely written) or "full"
\* (completely written by this run).

DstTree == [dst |-> dst_exists, org |-> org, org_parent |-> org_parent,
            img_dir |-> img_dir, img_copies |-> img_copies]

\* what of the destination tree belongs to file f
DstOf(tree, f) ==
    <<tree.org[f], f \in tree.org_parent, f \in tree.img_dir, tree.img_copies[f]>>

MainIdle ==
    /\ pc = "off"
    /\ src_is_dir = FALSE /\ n_src = 0 /\ imgs = [f \in Files |-> 0]
    /\ total_files = -1 /\ idx = 0 /\ m_idx = 0 /\ success_count = 0
    /\ assembled = FALSE /\ exit_code = -1
    /\ summary = NotLogged /\ warning = NotLogged /\ interrupted = FALSE
    /\ dst_exists = FALSE /\ backup = {} /\ org = [f \in Files |-> "absent"]
    /\ org_parent = {} /\ img_dir = {} /\ img_copies = [f \in Files |-> 0]
    /\ attempts = <<>> /\ outcome = [f \in Files |-> "pending"]
    /\ done = [f \in Files |-> {}] /\ failed_at = [f \in Files |-> "none"]
    /\ fs0 = DstTree

InitMain ==
    /\ pc = "start"
    /\ src_is_dir \in BOOLEAN
    /\ n_src \in 0..MaxFiles
    \* the files of a tree are alike: each has the same number of image matches
    /\ \E n \in 0..MaxImgs : imgs = [f \in Files |-> IF f <= n_src THEN n ELSE 0]
    /\ total_files = -1 /\ idx = 0 /\ m_idx = 0 /\ success_count = 0
    /\ assembled = FALSE /\ exit_code = -1
    /\ summary = NotLogged /\ warning = NotLogged /\ interrupted = FALSE
    \* an earlier run may have left the destination root and documents in it
    /\ dst_exists \in BOOLEAN
    /\ \E rerun \in {r \in BOOLEAN : r => dst_exists} :
          org = [f \in Files |-> IF rerun /\ f <= n_src THEN "old" ELSE "absent"]
    /\ org_parent = {f \in Files : org[f] = "old"}
    /\ backup = {} /\ img_dir = {} /\ img_copies = [f \in Files |-> 0]
    /\ attempts = <<>> /\ outcome = [f \in Files |-> "pending"]
    /\ done = [f \in Files |-> {}] /\ failed_at = [f \in Files |-> "none"]
    /\ fs0 = DstTree
    /\ ExtractIdle /\ EnsureIdle /\ LinksIdle /\ CopyIdle

\* sys.exit(code)
Exit(code) == pc' = "exit" /\ exit_code' = code

\* a step of convert_file completed; the run moves to `next`
StepOk(step, next) ==
    /\ done' = [done EXCEPT ![idx] = @ \cup {step}]
    /\ pc' = next
    /\ UNCHANGED <<attempts, outcome, failed_at, fs0>>

\* lines 270 and 265: convert_file returned False; falling through to the
\* summary instead of going on with the next file
NextFileAbort ==
    /\ idx' = total_files + 1
    /\ pc' = "loop"

\* lines 270 and 265: convert_file returned False; on to the next file
NextFile ==
    /\ idx' = idx + 1
    /\ pc' = "loop"

\* lines 231-233 (and 198-199): a step raised, convert_file returns False
StepFail(step) ==
    /\ failed_at' = [failed_at EXCEPT ![idx] = step]
    /\ outcome' = [outcome EXCEPT ![idx] = "failed"]
    /\ NextFile
    /\ UNCHANGED <<done, attempts, fs0>>

\* lines 244-251 with the test of src.is_dir() after dst.mkdir
CheckSourceLate ==
    /\ pc = "start"
    /\ dst_exists' = TRUE
    /\ IF src_is_dir THEN pc' = "enumerate" /\ UNCHANGED exit_code
                     ELSE Exit(1)
    /\ UNCHANGED <<src_is_dir, n_src, imgs, total_files, idx, m_idx, success_count,
                   assembled, summary, warning, interrupted>>
    /\ UNCHANGED <<backup, org, org_parent, img_dir, img_copies, histVars, pureVars, linkVars, copyVars>>

\* lines 244-249
CheckSource ==
    /\ pc = "start"
    /\ IF src_is_dir THEN pc' = "mkdir_dst" /\ UNCHANGED exit_code
                     ELSE Exit(1)
    /\ UNCHANGED <<src_is_dir, n_src, imgs, total_files, idx, m_idx, success_count,
                   assembled, summary, warning, interrupted>>
    /\ UNCHANGED <<fsVars, histVars, pureVars, linkVars, copyVars>>

\* line 251; an OSError goes to lines 285-287
MakeDestination ==
    /\ pc = "mkdir_dst"
    /\ \E ok \in BOOLEAN :
         IF ok THEN dst_exists' = TRUE /\ pc' = "enumerate" /\ UNCHANGED exit_code
               ELSE Exit(1) /\ UNCHANGED dst_exists
    /\ UNCHANGED <<src_is_dir, n_src, imgs, total_files, idx, m_idx, success_count,
                   assembled, summary, warning, interrupted>>
    /\ UNCHANGED <<backup, org, org_parent, img_dir, img_copies, histVars, pureVars, linkVars, copyVars>>

\* lines 254-262
Enumerate ==
    /\ pc = "enumerate"
    /\ total_files' = n_src
    /\ IF n_src = 0
       THEN Exit(0) /\ UNCHANGED <<idx, success_count>>
       ELSE pc' = "loop" /\ idx' = 1 /\ success_count' = 0 /\ UNCHANGED exit_code
    /\ UNCHANGED <<src_is_dir, n_src, imgs, m_idx, assembled, summary, warning, interrupted>>
    /\ UNCHANGED <<fsVars, histVars, pureVars, linkVars, copyVars>>

\* lines 265-270: the next file, up to the call of convert_file
BeginFile ==
    /\ pc = "loop"
    /\ idx <= total_files
    /\ attempts' = Append(attempts, idx)
    /\ pc' = "cf_valid"
    /\ assembled' = FALSE
    /\ m_idx' = 0
    /\ UNCHANGED <<src_is_dir, n_src, imgs, total_files, idx, success_count,
                   exit_code, summary, warning, interrupted>>
    /\ UNCHANGED <<fsVars, outcome, done, failed_at, fs0, pureVars, linkVars, copyVars>>

\* lines 278-280, and the return of main
FinalStatistics ==
    /\ pc = "loop"
    /\ idx > total_files
    /\ summary' = [t |-> "logged", success |-> success_count, total |-> total_files]
    /\ warning' = IF success_count < total_files
                  THEN [t |-> "logged", failed |-> total_files - success_count]
                  ELSE NotLogged
    /\ pc' = "done"
    /\ exit_code' = 0
    /\ UNCHANGED <<src_is_dir, n_src, imgs, total_files, idx, m_idx, success_count,
                   assembled, interrupted>>
    /\ UNCHANGED <<fsVars, histVars, pureVars, linkVars, copyVars>>

\* what a step of convert_file leaves alone besides the file system
CfFrame ==
    UNCHANGED <<src_is_dir, n_src, imgs, total_files, success_count,
                exit_code, summary, warning, interrupted, pureVars, linkVars, copyVars>>

\* lines 197-199: is_valid_file is False when the file is gone by now
CfValid ==
    /\ pc = "cf_valid"
    /\ \E ok \in BOOLEAN :
         IF ok THEN StepOk("valid", "cf_backup") /\ UNCHANGED idx
               ELSE StepFail("valid")
    /\ CfFrame
    /\ UNCHANGED <<m_idx, assembled, fsVars>>

\* lines 274-275: an exception that escapes convert_file (raised outside its
\* try) is caught by the loop, which goes on with the next file
CfEscapes ==
    /\ pc = "cf_valid"
    /\ failed_at' = [failed_at EXCEPT ![idx] = "escaped"]
    /\ outcome' = [outcome EXCEPT ![idx] = "failed"]
    /\ NextFile
    /\ UNCHANGED <<done, attempts, fs0>>
    /\ CfFrame
    /\ UNCHANGED <<m_idx, assembled, fsVars>>

\* lines 203-207 with the images directory made where it is set up
CfBackupMakesImageDir ==
    /\ pc = "cf_backup"
    /\ \E ok \in BOOLEAN :
         IF ok THEN /\ StepOk("backup", "cf_read")
                    /\ backup' = backup \cup {idx}
                    /\ UNCHANGED idx
               ELSE StepFail("backup") /\ UNCHANGED backup
    /\ img_dir' = img_dir \cup {idx}
    /\ CfFrame
    /\ UNCHANGED <<m_idx, assembled, dst_exists, org, org_parent, img_copies>>

\* lines 203-204
CfBackup ==
    /\ pc = "cf_backup"
    /\ \E ok \in BOOLEAN :
         IF ok THEN /\ StepOk("backup", "cf_read")
                    /\ backup' = backup \cup {idx}
                    /\ UNCHANGED idx
               ELSE StepFail("backup") /\ UNCHANGED backup
    /\ CfFrame
    /\ UNCHANGED <<m_idx, assembled, dst_exists, org, org_parent, img_dir, img_copies>>

\* line 210
CfRead ==
    /\ pc = "cf_read"
    /\ \E ok \in BOOLEAN :
         IF ok THEN StepOk("read", "cf_metadata") /\ UNCHANGED idx
               ELSE StepFail("read")
    /\ CfFrame
    /\ UNCHANGED <<m_idx, assembled, fsVars>>

\* lines 211-212: extract_metadata raises what safe_load raises besides
\* YAMLError; ensure_metadata raises nothing
CfMetadata ==
    /\ pc = "cf_metadata"
    /\ \E ok \in BOOLEAN :
         IF ok THEN StepOk("metadata", "cf_images") /\ UNCHANGED idx
               ELSE StepFail("metadata")
    /\ CfFrame
    /\ UNCHANGED <<m_idx, assembled, fsVars>>

\* what process_image can do with a match: the file is not there; mkdir
\* raises; copy2 raises before it wrote anything; copy2 raises after it
\* wrote some or all of the file; the copy is made
ImageOutcomes == {"missing", "mkdir_raises", "copy_raises", "copy_raises_late", "copied"}

\* line 215, one match of re.sub: lines 149-178.  Every exception is caught.
CfImage ==
    /\ pc = "cf_images"
    /\ m_idx < imgs[idx]
    /\ m_idx' = m_idx + 1
    /\ \E o \in ImageOutcomes :
         /\ img_dir' = IF o \in {"copy_raises", "copy_raises_late", "copied"}
                       THEN img_dir \cup {idx} ELSE img_dir
         /\ img_copies' = IF o \in {"copy_raises_late", "copied"}
                          THEN [img_copies EXCEPT ![idx] = @ + 1] ELSE img_copies
    /\ CfFrame
    /\ UNCHANGED <<pc, idx, assembled, dst_exists, backup, org, org_parent, histVars>>

\* line 215: re.sub has no match left, process_image_links returns
CfImagesDone ==
    /\ pc = "cf_images"
    /\ m_idx = imgs[idx]
    /\ StepOk("images", "cf_pandoc")
    /\ CfFrame
    /\ UNCHANGED <<idx, m_idx, assembled, fsVars>>

\* line 226 with lines 224-225 after it: the document is opened first
CfPandocThenOpen ==
    /\ pc = "cf_pandoc"
    /\ org' = [org EXCEPT ![idx] = "partial"]
    /\ StepOk("pandoc", "cf_mkdir")
    /\ CfFrame
    /\ UNCHANGED <<idx, m_idx, assembled, dst_exists, backup, org_parent, img_dir, img_copies>>

\* lines 216-221
CfPandoc ==
    /\ pc = "cf_pandoc"
    /\ \E ok \in BOOLEAN :
         IF ok THEN StepOk("pandoc", "cf_mkdir") /\ UNCHANGED idx
               ELSE StepFail("pandoc")
    /\ CfFrame
    /\ UNCHANGED <<m_idx, assembled, fsVars>>

\* line 224
CfMkdir ==
    /\ pc = "cf_mkdir"
    /\ \E ok \in BOOLEAN :
         IF ok THEN /\ StepOk("mkdir", "cf_assemble")
                    /\ org_parent' = org_parent \cup {idx}
                    /\ UNCHANGED idx
               ELSE StepFail("mkdir") /\ UNCHANGED org_parent
    /\ CfFrame
    /\ UNCHANGED <<m_idx, assembled, dst_exists, backup, org, img_dir, img_copies>>

\* line 225
CfAssemble ==
    /\ pc = "cf_assemble"
    /\ assembled' = TRUE
    /\ StepOk("assemble", "cf_open")
    /\ CfFrame
    /\ UNCHANGED <<idx, m_idx, fsVars>>

\* line 226, write_text opens the document, which truncates it
CfOpen ==
    /\ pc = "cf_open"
    /\ \E ok \in BOOLEAN :
         IF ok THEN /\ StepOk("open", "cf_write")
                    /\ org' = [org EXCEPT ![idx] = "partial"]
                    /\ UNCHANGED idx
               ELSE StepFail("open") /\ UNCHANGED org
    /\ CfFrame
    /\ UNCHANGED <<m_idx, assembled, dst_exists, backup, org_parent, img_dir, img_copies>>

\* lines 226-229 and 270-271: write_text writes and closes the document,
\* convert_file returns True and main counts the file
CfWrite ==
    /\ pc = "cf_write"
    /\ \E ok \in BOOLEAN :
         IF ok THEN /\ org' = [org EXCEPT ![idx] = "full"]
                    /\ done' = [done EXCEPT ![idx] = @ \cup {"write"}]
                    /\ outcome' = [outcome EXCEPT ![idx] = "ok"]
                    /\ success_count' = success_count + 1
                    /\ pc' = "print"
                    /\ UNCHANGED <<idx, attempts, failed_at, fs0>>
               ELSE StepFail("write") /\ UNCHANGED <<org, success_count>>
    /\ UNCHANGED <<src_is_dir, n_src, imgs, total_files, exit_code, summary, warning,
                   interrupted, pureVars, linkVars, copyVars>>
    /\ UNCHANGED <<m_idx, assembled, dst_exists, backup, org_parent, img_dir, img_copies>>

\* line 272; an OSError of print goes to lines 274-275
PrintProgress ==
    /\ pc = "print"
    /\ NextFile
    /\ CfFrame
    /\ UNCHANGED <<m_idx, assembled, fsVars, histVars>>

\* lines 282-284 with the handler logging the summary before it exits
InterruptHandlerSummary ==
    /\ interrupted' = TRUE
    /\ summary' = [t |-> "logged", success |-> success_count, total |-> total_files]
    /\ Exit(1)

\* lines 282-284
InterruptHandler ==
    /\ interrupted' = TRUE
    /\ Exit(1)
    /\ UNCHANGED summary

\* a KeyboardInterrupt anywhere in lines 243-281
Interrupt ==
    /\ pc \notin {"off", "exit", "done"}
    /\ InterruptHandler
    /\ UNCHANGED <<src_is_dir, n_src, imgs, total_files, idx, m_idx, success_count,
                   assembled, warning>>
    /\ UNCHANGED <<fsVars, histVars, pureVars, linkVars, copyVars>>

NextMain ==
    \/ CheckSource \/ MakeDestination \/ Enumerate \/ BeginFile \/ FinalStatistics
    \/ CfValid \/ CfEscapes \/ CfBackup \/ CfRead \/ CfMetadata \/ CfImage \/ CfImagesDone
    \/ CfPandoc \/ CfMkdir \/ CfAssemble \/ CfOpen \/ CfWrite \/ PrintProgress
    \/ Interrupt

SpecMain == InitMain /\ [][NextMain]_vars

(***************************************************************************)
(* A call of process_image_links.                                          *)
(***************************************************************************)
InitLinks ==
    /\ il_content \in Contents
    /\ il_content0 = il_content
    /\ il_pass = 1
    /\ il_pos = 0
    /\ il_src \in SUBSET Sources
    /\ il_dir = FALSE
    /\ il_files = [n \in ImageNames |-> "absent"]
    /\ il_log = <<>>
    /\ ExtractIdle /\ EnsureIdle /\ MainIdle /\ CopyIdle

\* the pieces of the content that pattern il_pass still has to reach
Ahead == {i \in (il_pos + 1)..Len(il_content) : MatchIn(il_pass, il_content[i])}

\* re.sub calls process_image on the next match and keeps its replacement
Substitute(i, o) ==
    LET piece == il_content[i]
        m     == Matched(il_pass, piece)
        c     == process_image(m, il_src, o)
        new   == IF m = piece THEN c.ret ELSE [piece EXCEPT !.alt = c.ret]
    IN  /\ il_content' = [il_content EXCEPT ![i] = new]
        /\ il_pos' = i
        /\ il_dir' = (il_dir \/ c.mkdir)
        /\ il_files' = IF c.wrote = "no" THEN il_files
                       ELSE [il_files EXCEPT ![c.name] = c.wrote]
        /\ il_log' = Append(il_log,
                        [pass |-> il_pass, pos |-> i, match |-> m, ret |-> c.ret,
                         result |-> c.result, wrote |-> c.wrote # "no"])
        /\ UNCHANGED <<il_content0, il_pass, il_src>>

\* lines 181-182, pattern 1: ![alt](path)
SubInline ==
    /\ il_pass = 1
    /\ Ahead # {}
    /\ \E o \in CopyOutcomes : Substitute(SetMin(Ahead), o)
    /\ UNCHANGED <<pureVars, mainVars, copyVars>>

\* lines 181-182, pattern 2: <img src="path" ...>
SubTag ==
    /\ il_pass = 2
    /\ Ahead # {}
    /\ \E o \in CopyOutcomes : Substitute(SetMin(Ahead), o)
    /\ UNCHANGED <<pureVars, mainVars, copyVars>>

\* lines 181-182, pattern 3: [[file:path.png]] and [[path.png]]
SubWiki ==
    /\ il_pass = 3
    /\ Ahead # {}
    /\ \E o \in CopyOutcomes : Substitute(SetMin(Ahead), o)
    /\ UNCHANGED <<pureVars, mainVars, copyVars>>

\* lines 181-184: re.sub is through with a pattern; after the last one
\* process_image_links returns new_content
EndPass ==
    /\ il_pass \in 1..3
    /\ Ahead = {}
    /\ il_pass' = il_pass + 1
    /\ il_pos' = 0
    /\ UNCHANGED <<il_content, il_content0, il_src, il_dir, il_files, il_log>>
    /\ UNCHANGED <<pureVars, mainVars, copyVars>>

NextLinks == SubInline \/ SubTag \/ SubWiki \/ EndPass

SpecLinks == InitLinks /\ [][NextLinks]_vars

(***************************************************************************)
(* The copies of two runs.                                                 *)
(***************************************************************************)
InitCopies ==
    /\ cc_jobs \in UNION {[1..n -> CopySources] : n \in 1..MaxJobs}
    /\ cc_at = [r \in Runs |-> 1]
    /\ cc_off = [r \in Runs |-> -1]
    /\ cc_files = [n \in CopyNames |-> NoFile]
    /\ ExtractIdle /\ EnsureIdle /\ MainIdle /\ LinksIdle

Copying(r) == cc_at[r] <= Len(cc_jobs)
Target(r) == NewFilename(cc_jobs[cc_at[r]])

\* a write of one chunk at offset k of a file
WriteAt(data, k, chunk) ==
    [i \in 1..(IF Len(data) > k THEN Len(data) ELSE k) |->
        IF i = k THEN chunk ELSE IF i <= Len(data) THEN data[i] ELSE Hole]

\* line 168: copy2 opens new_img_path for writing
OpenCopy ==
    \E r \in Runs :
        /\ Copying(r)
        /\ cc_off[r] = -1
        /\ cc_files' = [cc_files EXCEPT ![Target(r)] = [present |-> TRUE, data |-> <<>>]]
        /\ cc_off' = [cc_off EXCEPT ![r] = 0]
        /\ UNCHANGED <<cc_jobs, cc_at>>
        /\ UNCHANGED <<pureVars, mainVars, linkVars>>

\* line 168: copy2 writes the next chunk; after the last one it closes the
\* copy and the run goes on to its next image
WriteChunk ==
    \E r \in Runs :
        /\ Copying(r)
        /\ cc_off[r] >= 0
        /\ LET k == cc_off[r] + 1 IN
           /\ cc_files' = [cc_files EXCEPT ![Target(r)].data =
                              WriteAt(@, k, SourceData(cc_jobs[cc_at[r]])[k])]
           /\ IF k = MaxChunks
              THEN /\ cc_at' = [cc_at EXCEPT ![r] = @ + 1]
                   /\ cc_off' = [cc_off EXCEPT ![r] = -1]
              ELSE /\ cc_off' = [cc_off EXCEPT ![r] = k]
                   /\ UNCHANGED cc_at
        /\ UNCHANGED cc_jobs
        /\ UNCHANGED <<pureVars, mainVars, linkVars>>

NextCopies == OpenCopy \/ WriteChunk

SpecCopies == InitCopies /\ [][NextCopies]_vars

(***************************************************************************)
(* C1: the driver's loop and its summary                                   *)
(***************************************************************************)
Succeeded == {f \in Enumerated : outcome[f] = "ok"}

\* C1: when main completes, every enumerated file was attempted exactly
\* once, in enumeration order, whichever files failed; success_count is the
\* number of files that converted, total_count the number of enumerated
\* files, and the warning with total_count - success_count is logged exactly
\* when that difference is positive.
MainCountsTheorem ==
    pc = "done" =>
        /\ total_files = n_src
        /\ attempts = [i \in 1..n_src |-> i]
        /\ \A f \in Enumerated : outcome[f] \in {"ok", "failed"}
        /\ summary = [t |-> "logged", success |-> Cardinality(Succeeded), total |-> n_src]
        /\ warning = IF n_src - Cardinality(Succeeded) > 0
                     THEN [t |-> "logged", failed |-> n_src - Cardinality(Succeeded)]
                     ELSE NotLogged

\* a run completed in which the first file failed and the last one converted
MainCountsWitness ==
    /\ pc = "done"
    /\ total_files = MaxFiles
    /\ outcome[1] = "failed"
    /\ outcome[MaxFiles] = "ok"
    /\ warning # NotLogged

(***************************************************************************)
(* C2: the destination document is written last                            *)
(***************************************************************************)
BeforeWrite == {"backup", "read", "metadata", "images", "pandoc", "assemble"}

\* C2: the destination document of a file is written only after the backup,
\* the metadata extraction and normalization, the image-link rewriting and
\* the conversion completed and the output was assembled; when one of those
\* steps fails the document is left as it was and the file counts as failed.
WriteLastTheorem ==
    \A f \in Files :
        /\ org[f] # fs0.org[f] => BeforeWrite \subseteq done[f]
        /\ failed_at[f] \in {"backup", "read", "metadata", "pandoc"} =>
              /\ org[f] = fs0.org[f]
              /\ outcome[f] = "failed"
              /\ f \notin Succeeded

\* the conversion of a file with an earlier document failed, and a later
\* file was written
WriteLastWitness ==
    /\ failed_at[1] = "pandoc"
    /\ fs0.org[1] = "old"
    /\ org[1] = "old"
    /\ org[MaxFiles] = "full"

MissingSourceTheorem ==
    ~src_is_dir =>
        /\ pc \in {"start", "exit"}
        /\ pc = "exit" => exit_code = 1
        /\ dst_exists = fs0.dst
        /\ DstTree = fs0
        /\ backup = {}
        /\ total_files = -1
        /\ attempts = <<>>

\* main has exited on a missing source directory, with no destination root
MissingSourceWitness ==
    /\ ~src_is_dir
    /\ pc = "exit"
    /\ ~interrupted
    /\ exit_code = 1
    /\ ~dst_exists

(***************************************************************************)
(* C9: KeyboardInterrupt                                                   *)
(***************************************************************************)
Unprocessed == {f \in Enumerated : outcome[f] = "pending"}

\* what holds of every interrupted run
InterruptedRun ==
    /\ pc = "exit"
    /\ exit_code = 1
    /\ attempts = [i \in 1..Len(attempts) |-> i]
    /\ \A f \in Files : f > Len(attempts) =>
          /\ outcome[f] = "pending"
          /\ done[f] = {}
          /\ f \notin backup
          /\ DstOf(DstTree, f) = DstOf(fs0, f)
    /\ \A f \in Files : outcome[f] = "ok" => org[f] = "full"

Raises == {"mkdir_raises", "copy_raises_partial", "copy_raises_copied"}
Calls == {il_log[n] : n \in DOMAIN il_log}

\* the pattern family of a piece that is an image reference
FamilyOf(piece) == CASE piece.k = "a" -> 1 [] piece.k = "b" -> 2 [] piece.k = "c" -> 3

\* the file system raised in the call for the reference at piece i
RaisedAt(i) ==
    \E e \in Calls :
        e.pos = i /\ e.pass = FamilyOf(il_content0[i]) /\ e.result \in Raises

\* C6: for a match of any of the three families whose percent-decoded path,
\* resolved against the document's directory when relative, is a file, the
\* file is copied into the image directory under {first 8 hex digits of the
\* hash of the resolved path}_{file name}, and the match is replaced by a
\* link to that copy, relative to the destination document's directory, that
\* keeps the alt text.  (The calls in which mkdir or copy2 raised are left
\* out.)
RewriteAsClaimed ==
    il_pass = 4 =>
        \A i \in DOMAIN il_content0 :
            LET piece == il_content0[i] IN
            (piece.k \in {"a", "b", "c"}
                /\ Resolve(unquote(piece.path)) \in il_src
                /\ ~RaisedAt(i)) =>
                LET name == NewFilename(Resolve(unquote(piece.path))) IN
                /\ il_files[name] # "absent"
                /\ il_content[i].k = "org"
                /\ il_content[i].target = <<"images", name>>
                /\ (piece.k = "a" /\ piece.alt.k = "txt") => il_content[i].alt = piece.alt

(***************************************************************************)
(* C7: a reference that cannot be rewritten                                *)
(***************************************************************************)
\* every match of every pattern had its call of process_image
AllProcessed ==
    \A pass \in 1..3 : \A i \in DOMAIN il_content0 :
        MatchIn(pass, il_content0[i]) => \E e \in Calls : e.pass = pass /\ e.pos = i

\* C7 as stated: a match whose file does not exist, or whose processing
\* raises, is left unchanged in the output, no file is copied for it, the
\* other matches are still processed and the document does not fail.
UnchangedAsClaimed ==
    /\ \A e \in Calls : e.result # "copied" =>
          /\ ~e.wrote
          /\ (il_pass = 4 /\ e.match = il_content0[e.pos]) => il_content[e.pos] = e.match
    /\ il_pass = 4 => AllProcessed

\* C7, amended: for a match whose file does not exist, or whose processing
\* raises, process_image returns the matched text, so its substitution leaves
\* it unchanged, and it is unchanged in the output unless a later pattern
\* matches inside it (an img tag in the alt text of an inline image).  A file
\* is written for such a match only when shutil.copy2 itself raised after it
\* wrote some or all of the copy.  The other matches are still processed and
\* process_image_links returns.
UnchangedTheorem ==
    /\ \A e \in Calls : e.result # "copied" =>
          /\ e.ret = e.match
          /\ e.wrote => e.result \in {"copy_raises_partial", "copy_raises_copied"}
          /\ (il_pass = 4 /\ e.match = il_content0[e.pos]
                /\ \A pass \in (e.pass + 1)..3 : ~MatchIn(pass, e.match))
             => il_content[e.pos] = e.match
    /\ il_pass = 4 => AllProcessed
    /\ Len(il_log) <= 2 * Len(il_content0)

\* process_image_links returned after a match that named no file, a match on
\* which mkdir raised, and then a match that was rewritten
UnchangedWitness ==
    /\ il_pass = 4
    /\ \E a, b \in DOMAIN il_log :
          /\ a < b
          /\ il_log[a].result \in {"missing", "mkdir_raises", "type_error"}
          /\ il_content[il_log[a].pos] = il_content0[il_log[a].pos]
          /\ il_log[b].result = "copied"
          /\ il_content[il_log[b].pos].k = "org"

(***************************************************************************)
(* C10: the shared image directory                                         *)
(***************************************************************************)
\* no copy2 has the file of this name open
Closed(n) == \A r \in Runs : ~(Copying(r) /\ cc_off[r] >= 0 /\ Target(r) = n)

\* the file of this name holds the whole of the source it is named after
Complete(n) ==
    \E p \in CopySources : n = NewFilename(p) /\ cc_files[n].data = SourceData(p)

\* a step that leaves the files that are there as they are
CreatesOnly == \A n \in CopyNames : cc_files[n].present => cc_files'[n] = cc_files[n]

OverwritesOwnName ==
    \A n \in CopyNames :
        /\ cc_files[n].present => cc_files'[n].present
        /\ cc_files'[n] # cc_files[n] =>
              \E r \in Runs : Copying(r) /\ Target(r) = n /\ cc_off'[r] # cc_off[r]

MaxTextLen == 7

Texts == UNION {[1..n -> Tokens] : n \in 0..MaxTextLen}

\* what a YAML document can load as
YamlValues ==
    { PyNone, PyInt(0), PyStr("s"), PyList(<<>>), PyList(<<PyStr("a")>>),
      EmptyDict, PyDict([k \in {"title"} |-> PyStr("T")]) }

YamlOutcomes ==
    {[kind |-> "YAMLError"], [kind |-> "Exception"]}
        \cup {[kind |-> "value", value |-> v] : v \in YamlValues}

\* what a caller can pass as metadata, and as a value of a key
MetaValues ==
    { PyNone, PyStr(""), PyStr("x"), PyInt(0), PyInt(1),
      PyList(<<>>), PyList(<<PyStr("a")>>), PyList(<<PyStr("a"), PyStr("b")>>) }

InputKeys == {"title", "type", "tags", "author"}

MetaInputs ==
    MetaValues \cup {PyDict(d) : d \in UNION {[K -> MetaValues] : K \in SUBSET InputKeys}}

\* the leading blocks of a text: the opener ends at newline i, the closer
\* starts at newline j, and the closer ends at newline e
Blocks(t) ==
    IF Len(t) = 0 \/ t[1] # "D" THEN {}
    ELSE LET opens     == {i \in 2..Len(t) : t[i] = "N" /\ \A r \in 2..(i - 1) : IsWs(t[r])}
             closes(i) == {j \in (i + 1)..(Len(t) - 1) : t[j] = "N" /\ t[j + 1] = "D"}
             ends(j)   == {e \in (j + 2)..Len(t) :
                              t[e] = "N" /\ \A r \in (j + 2)..(e - 1) : IsWs(t[r])}
         IN  UNION {UNION {{<<i, j, e>> : e \in ends(j)} : j \in closes(i)} : i \in opens}


InitExtract ==
    /\ em_text \in Texts
    \* safe_load is only called when the pattern matches (line 82)
    /\ em_yaml \in IF YamlMatch(em_text).matched THEN YamlOutcomes ELSE {[kind |-> "YAMLError"]}
    /\ em_result = NotCalled
    /\ EnsureIdle
    /\ MainIdle /\ LinksIdle /\ CopyIdle

\* metadata, content = extract_metadata(text)
ExtractMetadata ==
    /\ em_result = NotCalled
    /\ em_result' = extract_metadata(em_text, em_yaml)
    /\ UNCHANGED <<em_text, em_yaml, en_in, en_out, mainVars, linkVars, copyVars>>

NextExtract == ExtractMetadata

SpecExtract == InitExtract /\ [][NextExtract]_vars

InitEnsure ==
    /\ en_in \in MetaInputs
    /\ en_out = NotCalled
    /\ ExtractIdle
    /\ MainIdle /\ LinksIdle /\ CopyIdle

\* metadata = ensure_metadata(metadata)
EnsureMetadata ==
    /\ en_out = NotCalled
    /\ en_out' = ensure_metadata(en_in)
    /\ UNCHANGED <<em_text, em_yaml, em_result, en_in, mainVars, linkVars, copyVars>>

NextEnsure == EnsureMetadata

SpecEnsure == InitEnsure /\ [][NextEnsure]_vars

(***************************************************************************)
(* C4: extract_metadata                                                    *)
(***************************************************************************)
BlockText(t, b) == SubSeq(t, b[1] + 1, b[2] - 1)
After(t, b) == SubSeq(t, b[3] + 1, Len(t))
ContentDict(v) == PyDict([k \in {"content"} |-> PyStr(StrOf(v))])

\* C4 as stated: extract_metadata never fails; without a leading block it
\* returns ({}, text); a block that parses to a mapping gives (the mapping,
\* the text after the closing delimiter); a block that fails to parse or
\* parses to something that is not a mapping gives ({}, the original text).
ExtractAsClaimed ==
    em_result # NotCalled =>
        /\ em_result.t = "returned"
        /\ Blocks(em_text) = {} => em_result = Returned(EmptyDict, em_text)
        /\ Blocks(em_text) # {} =>
              \E b \in Blocks(em_text) :
                 LET r == safe_load(BlockText(em_text, b), em_yaml) IN
                 IF r.kind = "value" /\ IsDict(r.value)
                 THEN em_result = Returned(r.value, After(em_text, b))
                 ELSE em_result = Returned(EmptyDict, em_text)

\* C4, amended: extract_metadata raises only what yaml.safe_load raises
\* besides yaml.YAMLError.  Without a leading block it returns ({}, text).
\* With one: a YAMLError gives ({}, the original text); a mapping gives (the
\* mapping, the text after the closing delimiter); a falsy value (None, 0,
\* an empty list) gives ({}, the text after the closing delimiter); any
\* other value v gives ({content: str(v)}, the text after the closing
\* delimiter).  The closing delimiter takes the blank lines after it.
ExtractTheorem ==
    em_result # NotCalled =>
        /\ Blocks(em_text) = {} => em_result = Returned(EmptyDict, em_text)
        /\ Blocks(em_text) # {} =>
              \E b \in Blocks(em_text) :
                 LET r == safe_load(BlockText(em_text, b), em_yaml) IN
                 CASE r.kind = "Exception" -> em_result = Raised
                   [] r.kind = "YAMLError" -> em_result = Returned(EmptyDict, em_text)
                   [] OTHER ->
                        /\ em_result.t = "returned"
                        /\ em_result.content = After(em_text, b)
                        /\ NlIn(em_result.content, 1) = {}
                        /\ em_result.metadata =
                              IF IsDict(r.value) THEN r.value
                              ELSE IF Truthy(r.value) THEN ContentDict(r.value)
                              ELSE EmptyDict

\* a block that loads as a scalar, followed by more text, has been extracted
ExtractWitness ==
    /\ em_result # NotCalled
    /\ em_result.t = "returned"
    /\ Blocks(em_text) # {}
    /\ em_yaml = [kind |-> "value", value |-> PyStr("s")]
    /\ em_result.metadata = ContentDict(PyStr("s"))
    /\ Len(em_result.content) > 0
    /\ Len(em_result.content) < Len(em_text)

(***************************************************************************)
(* C5: ensure_metadata                                                     *)
(***************************************************************************)
IsScalar(v) == v.t \in {"str", "int"}

\* what the input says about key k, if it is a mapping that has k
Supplied(k) == IsDict(en_in) /\ k \in DOMAIN en_in.d

\* C5 as stated: the result has exactly the five default keys, keys outside
\* them are dropped, absent keys keep their default, a non-mapping gives
\* the defaults, tags is always a list, and any scalar supplied for tags
\* gives the single-element list of that scalar.
EnsureAsClaimed ==
    en_out # NotCalled =>
        /\ DOMAIN en_out = DefaultKeys
        /\ \A k \in DefaultKeys : ~Supplied(k) => en_out[k] = DEFAULT_METADATA[k]
        /\ IsList(en_out["tags"])
        /\ Supplied("tags") /\ IsScalar(en_in.d["tags"])
              => en_out["tags"] = PyList(<<en_in.d["tags"]>>)

\* C5, amended: as stated, except that only a truthy non-list supplied for
\* tags gives the single-element list; a falsy one (None, "", 0) gives the
\* empty list.  A list supplied for tags, and any value supplied for
\* another default key, is kept as it is.
EnsureTheorem ==
    en_out # NotCalled =>
        /\ DOMAIN en_out = DefaultKeys
        /\ \A k \in DefaultKeys : ~Supplied(k) => en_out[k] = DEFAULT_METADATA[k]
        /\ \A k \in DefaultKeys \ {"tags"} : Supplied(k) => en_out[k] = en_in.d[k]
        /\ IsList(en_out["tags"])
        /\ Supplied("tags") =>
              LET v == en_in.d["tags"] IN
              en_out["tags"] = IF IsList(v) THEN v
                               ELSE IF Truthy(v) THEN PyList(<<v>>)
                               ELSE PyList(<<>>)

\* a mapping with an unknown key and a truthy scalar for tags was normalized
EnsureWitness ==
    /\ en_out # NotCalled
    /\ Supplied("author")
    /\ Supplied("tags") /\ en_in.d["tags"] = PyStr("x")
    /\ ~Supplied("title")
    /\ en_out["tags"] = PyList(<<PyStr("x")>>)

====
